---- MODULE Spec2Model ----
(***************************************************************************)
(* A state-machine model of glitter's object wrappers (Program,            *)
(* Renderbuffer), its Binder/Binding protocol, program linking, location   *)
(* lookup, uniform upload and the context's clear, attribute and draw      *)
(* calls, over a mock driver that records every call.                      *)
(*                                                                         *)
(* The library enforces its protocol through Rust's ownership rules, so    *)
(* the guard of each action is what the borrow checker accepts for the     *)
(* signature in the source: a value can be used while no live value holds  *)
(* an exclusive borrow of it, and can be dropped while nothing borrows it. *)
(* Strings are modelled as the sequence of their UTF-8 bytes.              *)
(***************************************************************************)
EXTENDS Integers, Sequences, FiniteSets, TLC

\* ---------------------------------------------------------------- bounds
MaxPrograms == 2
MaxRenderbuffers == 2
MaxLog == 3
MaxName == 2
MaxElements == 2
FrameObjects == 1

\* ------------------------------------------------------- driver constants
GL_TRUE == 1
GL_FALSE == 0
GL_LINK_STATUS == 35714
GL_INFO_LOG_LENGTH == 35716
GL_RENDERBUFFER == 36161

\* Bytes the mock driver may put in an info log: 'A', and the two bytes of
\* U+00E9, which are valid UTF-8 only as the pair <<195, 169>>.
LogBytes == {65, 195, 169}

\* "[Unknown program error]"
UnknownProgramError ==
    <<91, 85, 110, 107, 110, 111, 119, 110, 32, 112, 114, 111, 103, 114, 97,
      109, 32, 101, 114, 114, 111, 114, 93>>

VARIABLES
    programs,            \* Program wrappers: [state, gl_id]
    renderbuffers,       \* Renderbuffer wrappers: [state, gl_id]
    programBindings,     \* live ProgramBinding values: [program, binder]
    renderbufferBindings,\* live RenderbufferBinding values
    ctx_renderbuffer,    \* the RB slot of the caller's ContextOf
    drvProgramNames,     \* program names the driver has handed out
    drvRenderbufferNames,\* renderbuffer names the driver has handed out
    drvDeleteProgram,    \* DeleteProgram calls received, per handle
    drvDeleteRenderbuffers, \* DeleteRenderbuffers calls received, per handle
    drvCurrentProgram,   \* the driver's current program (0: none)
    drvCurrentRenderbuffer, \* the driver's RENDERBUFFER binding (0: none)
    drvLinkStatus,       \* per program handle: "unlinked" or "linked"
    uniform,             \* the ProgramUniform the caller holds, if any
    trace,               \* driver calls issued by the latest operation
    last                 \* the latest operation, its driver inputs and its result

vars == <<programs, renderbuffers, programBindings, renderbufferBindings,
          ctx_renderbuffer, drvProgramNames, drvRenderbufferNames,
          drvDeleteProgram, drvDeleteRenderbuffers, drvCurrentProgram,
          drvCurrentRenderbuffer, drvLinkStatus, uniform, trace, last>>

objects == <<programs, renderbuffers>>
bindings == <<programBindings, renderbufferBindings, ctx_renderbuffer>>
driver == <<drvProgramNames, drvRenderbufferNames, drvDeleteProgram,
            drvDeleteRenderbuffers>>
current == <<drvCurrentProgram, drvCurrentRenderbuffer>>

\* ---------------------------------------------------------------- helpers
\* An unsigned 32-bit value (GLuint) as its two 16-bit halves, so that every
\* value of the type can be written: hi * 65536 + lo.
U32(hi, lo) == [hi |-> hi, lo |-> lo]

\* A driver call and its integer arguments (0 where it has fewer).
Call5(fn, a, b, c, d) == [fn |-> fn, a |-> a, b |-> b, c |-> c, d |-> d]
Call(fn, a, b) == Call5(fn, a, b, 0, 0)

NoResult ==
    [op |-> "", tag |-> "", text |-> <<>>, gl_id |-> 0, link_status |-> 0,
     info_length |-> 0, log |-> <<>>, residual |-> "",
     name |-> <<>>, index |-> 0, gl_index |-> U32(0, 0), program |-> 0,
     uniform_program |-> 0, shape |-> "", prim |-> "",
     elements |-> [hi |-> 0, lo |-> [hi |-> 0, lo |-> 0]]]

Result(op, tag) == [NoResult EXCEPT !.op = op, !.tag = tag]

SeqsOfLen(S, n) == [1..n -> S]

\* No ProgramUniform held; a held one is [program, index, gl_index]: the
\* Program wrapper it was resolved from, the index the driver reported then,
\* and its (pub) gl_index field.
NoUniform == [program |-> 0, index |-> 0, gl_index |-> [hi |-> 0, lo |-> 0]]

\* The bytes a conforming driver writes for INFO_LOG_LENGTH = len: len - 1
\* characters and the terminator.
DriverLogs(len) == IF len > 0 THEN SeqsOfLen(LogBytes, len - 1) ELSE {<<>>}

IsContinuation(b) == b \in 128..191

\* str::from_utf8's validation.
RECURSIVE ValidUtf8(_)
ValidUtf8(bytes) ==
    IF bytes = <<>> THEN TRUE
    ELSE LET b == Head(bytes)
             n == Len(bytes)
         IN  IF b < 128 THEN ValidUtf8(Tail(bytes))
             ELSE IF b \in 194..223
             THEN /\ n >= 2
                  /\ IsContinuation(bytes[2])
                  /\ ValidUtf8(SubSeq(bytes, 3, n))
             ELSE IF b \in 224..239
             THEN /\ n >= 3
                  /\ bytes[2] \in (IF b = 224 THEN 160..191
                                   ELSE IF b = 237 THEN 128..159
                                   ELSE 128..191)
                  /\ IsContinuation(bytes[3])
                  /\ ValidUtf8(SubSeq(bytes, 4, n))
             ELSE IF b \in 240..244
             THEN /\ n >= 4
                  /\ bytes[2] \in (IF b = 240 THEN 144..191
                                   ELSE IF b = 244 THEN 128..143
                                   ELSE 128..191)
                  /\ IsContinuation(bytes[3])
                  /\ IsContinuation(bytes[4])
                  /\ ValidUtf8(SubSeq(bytes, 5, n))
             ELSE FALSE

\* String::from_utf8(bytes).ok()
from_utf8_ok(bytes) ==
    IF ValidUtf8(bytes) THEN [tag |-> "Some", text |-> bytes]
    ELSE [tag |-> "None", text |-> <<>>]

\* ------------------------------------------------------------------ Init
Init ==
    /\ programs = [p \in 1..MaxPrograms |-> [state |-> "none", gl_id |-> 0]]
    /\ renderbuffers = [r \in 1..MaxRenderbuffers |-> [state |-> "none", gl_id |-> 0]]
    /\ programBindings = {}
    /\ renderbufferBindings = {}
    /\ ctx_renderbuffer = "RenderbufferBinder"
    /\ drvProgramNames = 0
    /\ drvRenderbufferNames = 0
    /\ drvDeleteProgram = [h \in 0..MaxPrograms |-> 0]
    /\ drvDeleteRenderbuffers = [h \in 0..MaxRenderbuffers |-> 0]
    /\ drvCurrentProgram = 0
    /\ drvCurrentRenderbuffer = 0
    /\ drvLinkStatus = [h \in 1..MaxPrograms |-> "unlinked"]
    /\ uniform = NoUniform
    /\ trace = <<>>
    /\ last = NoResult

\* --------------------------------------------------- program: create, drop
\* The value create_program returns for the handle gl::CreateProgram gave.
create_program_result(id) == IF id > 0 THEN "Ok" ELSE "Err"

\* The wrappers are numbered in the order of their creation.
NextProgram == CHOOSE p \in 1..MaxPrograms :
    /\ programs[p].state = "none"
    /\ \A q \in 1..(p - 1) : programs[q].state # "none"

create_program ==
    /\ \E p \in 1..MaxPrograms : programs[p].state = "none"
    /\ \E id \in {0, drvProgramNames + 1} :
        LET tag == create_program_result(id) IN
        /\ drvProgramNames' = IF id > 0 THEN id ELSE drvProgramNames
        /\ programs' = IF tag = "Ok"
                       THEN [programs EXCEPT ![NextProgram] =
                                [state |-> "live", gl_id |-> id]]
                       ELSE programs
        /\ trace' = <<Call("CreateProgram", 0, 0)>>
        /\ last' = [Result("create_program", tag) EXCEPT !.gl_id = id]
    /\ UNCHANGED <<renderbuffers, bindings, drvRenderbufferNames,
                   drvDeleteProgram, drvDeleteRenderbuffers, current,
                   drvLinkStatus, uniform>>

\* Drop for Program. Nothing holds a borrow of a Program between calls: the
\* ProgramBinding that bind returns borrows the binder, not the Program.
\* The driver keeps a deleted program current until another one is used.
Program_drop(p) ==
    /\ programs[p].state = "live"
    /\ programs' = [programs EXCEPT ![p].state = "dropped"]
    /\ drvDeleteProgram' = [drvDeleteProgram EXCEPT ![programs[p].gl_id] = @ + 1]
    /\ trace' = <<Call("DeleteProgram", programs[p].gl_id, 0)>>
    /\ last' = [Result("Program::drop", "Unit") EXCEPT !.gl_id = programs[p].gl_id]
    /\ UNCHANGED <<renderbuffers, bindings, drvProgramNames,
                   drvRenderbufferNames, drvDeleteRenderbuffers, current,
                   drvLinkStatus, uniform>>

\* ------------------------------------------------------- program: linking
\* get_program_info_log with the length test off by one (>= 0 for > 0).
get_program_info_log_ge0(gl_id, info_length, log) ==
    LET query == <<Call("GetProgramiv", gl_id, GL_INFO_LOG_LENGTH)>> IN
    IF info_length >= 0
    THEN LET bytes == SubSeq(log, 1, info_length - 1) IN
         [ret |-> from_utf8_ok(bytes),
          calls |-> query \o <<Call("GetProgramInfoLog", gl_id, info_length)>>]
    ELSE [ret |-> [tag |-> "None", text |-> <<>>], calls |-> query]

\* get_program_info_log fetching the log before it looks at the length.
get_program_info_log_fetch_first(gl_id, info_length, log) ==
    LET calls == <<Call("GetProgramiv", gl_id, GL_INFO_LOG_LENGTH),
                   Call("GetProgramInfoLog", gl_id, info_length)>> IN
    IF info_length > 0
    THEN [ret |-> from_utf8_ok(SubSeq(log, 1, info_length - 1)), calls |-> calls]
    ELSE [ret |-> [tag |-> "None", text |-> <<>>], calls |-> calls]

\* get_program_info_log keeping the terminator (set_len(info_length)).
get_program_info_log_no_trim(gl_id, info_length, log) ==
    LET query == <<Call("GetProgramiv", gl_id, GL_INFO_LOG_LENGTH)>> IN
    IF info_length > 0
    THEN [ret |-> from_utf8_ok(log \o <<0>>),
          calls |-> query \o <<Call("GetProgramInfoLog", gl_id, info_length)>>]
    ELSE [ret |-> [tag |-> "None", text |-> <<>>], calls |-> query]

\* get_program_info_log, given what the driver answers: the INFO_LOG_LENGTH
\* and the characters GetProgramInfoLog writes before the terminator.
get_program_info_log(gl_id, info_length, log) ==
    LET query == <<Call("GetProgramiv", gl_id, GL_INFO_LOG_LENGTH)>> IN
    IF info_length > 0
    THEN LET bytes == SubSeq(log, 1, info_length - 1) IN
         [ret |-> from_utf8_ok(bytes),
          calls |-> query \o <<Call("GetProgramInfoLog", gl_id, info_length)>>]
    ELSE [ret |-> [tag |-> "None", text |-> <<>>], calls |-> query]

\* link_program fetching the info log whatever the link status.
link_program_result_always_log(gl_id, link_status, info_length, log) ==
    LET info == get_program_info_log(gl_id, info_length, log)
        calls == <<Call("LinkProgram", gl_id, 0),
                   Call("GetProgramiv", gl_id, GL_LINK_STATUS)>> \o info.calls
    IN  IF link_status = GL_TRUE
        THEN [tag |-> "Ok", text |-> <<>>, calls |-> calls]
        ELSE [tag |-> "Err",
              text |-> IF info.ret.tag = "Some" THEN info.ret.text
                       ELSE UnknownProgramError,
              calls |-> calls]

\* link_program, given the driver's LINK_STATUS answer and its info log.
link_program_result(gl_id, link_status, info_length, log) ==
    LET calls == <<Call("LinkProgram", gl_id, 0),
                   Call("GetProgramiv", gl_id, GL_LINK_STATUS)>>
        success == (link_status = GL_TRUE)
    IN  IF success
        THEN [tag |-> "Ok", text |-> <<>>, calls |-> calls]
        ELSE LET info == get_program_info_log(gl_id, info_length, log)
                 msg == IF info.ret.tag = "Some" THEN info.ret.text
                        ELSE UnknownProgramError
             IN  [tag |-> "Err", text |-> msg, calls |-> calls \o info.calls]

\* The driver's link status of a program after gl::LinkProgram, which is
\* what the LINK_STATUS query then reports.
LinkProgram(link_status) ==
    IF link_status = GL_TRUE THEN "linked" ELSE "unlinked"

\* link_program(p) with the driver's INFO_LOG_LENGTH answers drawn from
\* `lengths`.
link_program_with(p, lengths) ==
    /\ programs[p].state = "live"
    /\ \E link_status \in {0, GL_TRUE} :
       \E info_length \in (IF link_status = GL_TRUE THEN {0} ELSE lengths) :
       \E log \in DriverLogs(info_length) :
        LET r == link_program_result(programs[p].gl_id, link_status,
                                     info_length, log) IN
        /\ trace' = r.calls
        /\ last' = [Result("link_program", r.tag) EXCEPT
                        !.text = r.text, !.gl_id = programs[p].gl_id,
                        !.link_status = link_status,
                        !.info_length = info_length, !.log = log]
        /\ drvLinkStatus' = [drvLinkStatus EXCEPT ![programs[p].gl_id] =
                                LinkProgram(link_status)]
    /\ UNCHANGED <<objects, bindings, driver, current, uniform>>

link_program(p) == link_program_with(p, -1..MaxLog)

\* link_program(p) over a driver that keeps no info log.
link_program_no_log(p) == link_program_with(p, {0})

\* get_program_info_log(p) with the driver's INFO_LOG_LENGTH answers drawn
\* from `lengths`.
get_program_info_log_call_with(p, lengths) ==
    /\ programs[p].state = "live"
    /\ \E info_length \in lengths :
       \E log \in DriverLogs(info_length) :
        LET r == get_program_info_log(programs[p].gl_id, info_length, log) IN
        /\ trace' = r.calls
        /\ last' = [Result("get_program_info_log", r.ret.tag) EXCEPT
                        !.text = r.ret.text, !.gl_id = programs[p].gl_id,
                        !.info_length = info_length, !.log = log]
    /\ UNCHANGED <<objects, bindings, driver, current, drvLinkStatus, uniform>>

get_program_info_log_call(p) == get_program_info_log_call_with(p, -1..MaxLog)

\* attach_shader(&self, program: &mut Program, shader: &Shader): one
\* gl::AttachShader(program.gl_id(), shader.gl_id()), for any shader handle.
ShaderIds == {1, 2}

attach_shader(p) ==
    /\ programs[p].state = "live"
    /\ \E shader \in ShaderIds :
        /\ trace' = <<Call("AttachShader", programs[p].gl_id, shader)>>
        /\ last' = [Result("attach_shader", "Unit") EXCEPT
                        !.gl_id = programs[p].gl_id, !.program = p]
    /\ UNCHANGED <<objects, bindings, driver, current, drvLinkStatus, uniform>>

\* ------------------------------------------------------ program: locations
\* Bytes of the names a caller passes: NUL and 'a'.
NameBytes == {0, 97}
Names == UNION {SeqsOfLen(NameBytes, n) : n \in 0..MaxName}

\* CString::new(name): an error when the name holds a NUL byte.
CString_new(name) ==
    IF \E i \in 1..Len(name) : name[i] = 0 THEN "Err" ELSE "Ok"

\* `i as GLuint` of a signed 32-bit i: the same 32 bits, read unsigned.
AsGLuint(i) == U32((i \div 65536) % 65536, i % 65536)

\* `u as GLint` keeping only the low 16 bits.
AsGLint_low16(u) == u.lo

\* `u as GLint` of an unsigned 32-bit u: the same 32 bits, read signed.
AsGLint(u) ==
    IF u.hi >= 32768 THEN (u.hi - 65536) * 65536 + u.lo
    ELSE u.hi * 65536 + u.lo

\* What GetAttribLocation / GetUniformLocation may answer: -1 for a program
\* whose latest link did not succeed, else -1 (no such name) or a location.
DriverIndexes(status) ==
    IF status = "linked" THEN {-1, 0, 2147483647} ELSE {-1}

\* get_attrib_location / get_uniform_location with the CString error ignored.
get_location_result_no_nul_check(fn, gl_id, name, index) ==
    [tag |-> IF index >= 0 THEN "Ok" ELSE "Err",
     gl_index |-> IF index >= 0 THEN AsGLuint(index) ELSE U32(0, 0),
     calls |-> <<Call(fn, gl_id, 0)>>]

\* get_attrib_location / get_uniform_location taking only index > 0.
get_location_result_gt0(fn, gl_id, name, index) ==
    IF CString_new(name) = "Err"
    THEN [tag |-> "Err", gl_index |-> U32(0, 0), calls |-> <<>>]
    ELSE [tag |-> IF index > 0 THEN "Ok" ELSE "Err",
          gl_index |-> IF index > 0 THEN AsGLuint(index) ELSE U32(0, 0),
          calls |-> <<Call(fn, gl_id, 0)>>]

\* get_attrib_location / get_uniform_location taking index -1 as well.
get_location_result_ge_minus1(fn, gl_id, name, index) ==
    IF CString_new(name) = "Err"
    THEN [tag |-> "Err", gl_index |-> U32(0, 0), calls |-> <<>>]
    ELSE [tag |-> IF index >= -1 THEN "Ok" ELSE "Err",
          gl_index |-> IF index >= -1 THEN AsGLuint(index) ELSE U32(0, 0),
          calls |-> <<Call(fn, gl_id, 0)>>]

\* The body get_attrib_location and get_uniform_location share, `fn` being
\* the driver call: Err(()) carries nothing, Ok carries gl_index.
get_location_result(fn, gl_id, name, index) ==
    IF CString_new(name) = "Err"
    THEN [tag |-> "Err", gl_index |-> U32(0, 0), calls |-> <<>>]
    ELSE [tag |-> IF index >= 0 THEN "Ok" ELSE "Err",
          gl_index |-> IF index >= 0 THEN AsGLuint(index) ELSE U32(0, 0),
          calls |-> <<Call(fn, gl_id, 0)>>]

\* The driver is asked only for a name that CString::new accepted.
LocationAnswers(p, name) ==
    IF CString_new(name) = "Ok"
    THEN DriverIndexes(drvLinkStatus[programs[p].gl_id]) ELSE {0}

\* get_attrib_location(p) for a name drawn from `names`.
get_attrib_location_with(p, names) ==
    /\ programs[p].state = "live"
    /\ \E name \in names : \E index \in LocationAnswers(p, name) :
        LET r == get_location_result("GetAttribLocation", programs[p].gl_id,
                                     name, index) IN
        /\ trace' = r.calls
        /\ last' = [Result("get_attrib_location", r.tag) EXCEPT
                        !.gl_id = programs[p].gl_id, !.program = p,
                        !.name = name, !.index = index,
                        !.gl_index = r.gl_index]
    /\ UNCHANGED <<objects, bindings, driver, current, drvLinkStatus, uniform>>

get_attrib_location(p) == get_attrib_location_with(p, Names)

\* get_uniform_location(p) for a name drawn from `names`; when `kept`, the
\* caller keeps the ProgramUniform of a successful lookup (the latest one).
get_uniform_location_with(p, names, kept) ==
    /\ programs[p].state = "live"
    /\ \E name \in names : \E index \in LocationAnswers(p, name) :
        LET r == get_location_result("GetUniformLocation", programs[p].gl_id,
                                     name, index) IN
        /\ trace' = r.calls
        /\ last' = [Result("get_uniform_location", r.tag) EXCEPT
                        !.gl_id = programs[p].gl_id, !.program = p,
                        !.name = name, !.index = index,
                        !.gl_index = r.gl_index]
        /\ uniform' = IF r.tag = "Ok" /\ kept
                      THEN [program |-> p, index |-> index,
                            gl_index |-> r.gl_index]
                      ELSE uniform
    /\ UNCHANGED <<objects, bindings, driver, current, drvLinkStatus>>

get_uniform_location(p) == get_uniform_location_with(p, Names, TRUE)

\* ---------------------------------------------- renderbuffer: create, drop
\* The wrapper gen_renderbuffer returns for the id GenRenderbuffers left in
\* `id` (0 when the driver wrote nothing): the id is wrapped as it is.
gen_renderbuffer_result(id) == [state |-> "live", gl_id |-> id]

NextRenderbuffer == CHOOSE r \in 1..MaxRenderbuffers :
    /\ renderbuffers[r].state = "none"
    /\ \A q \in 1..(r - 1) : renderbuffers[q].state # "none"

\* gen_renderbuffer that also binds the new name to RENDERBUFFER.
gen_renderbuffer_bound ==
    /\ \E r \in 1..MaxRenderbuffers : renderbuffers[r].state = "none"
    /\ \E id \in {0, drvRenderbufferNames + 1} :
        /\ drvRenderbufferNames' = IF id > 0 THEN id ELSE drvRenderbufferNames
        /\ renderbuffers' = [renderbuffers EXCEPT ![NextRenderbuffer] =
                                gen_renderbuffer_result(id)]
        /\ trace' = <<Call("GenRenderbuffers", 1, 0),
                      Call("BindRenderbuffer", GL_RENDERBUFFER, id)>>
        /\ last' = [Result("gen_renderbuffer", "Renderbuffer") EXCEPT !.gl_id = id]
        /\ drvCurrentRenderbuffer' = id
    /\ UNCHANGED <<programs, bindings, drvProgramNames, drvDeleteProgram,
                   drvDeleteRenderbuffers, drvCurrentProgram, drvLinkStatus,
                   uniform>>

gen_renderbuffer ==
    /\ \E r \in 1..MaxRenderbuffers : renderbuffers[r].state = "none"
    /\ \E id \in {0, drvRenderbufferNames + 1} :
        /\ drvRenderbufferNames' = IF id > 0 THEN id ELSE drvRenderbufferNames
        /\ renderbuffers' = [renderbuffers EXCEPT ![NextRenderbuffer] =
                                gen_renderbuffer_result(id)]
        /\ trace' = <<Call("GenRenderbuffers", 1, 0)>>
        /\ last' = [Result("gen_renderbuffer", "Renderbuffer") EXCEPT !.gl_id = id]
    /\ UNCHANGED <<programs, bindings, drvProgramNames, drvDeleteProgram,
                   drvDeleteRenderbuffers, current, drvLinkStatus, uniform>>

\* A RenderbufferBinding<'a> holds the exclusive borrow &'a mut Renderbuffer.
RenderbufferBorrowed(r) == \E b \in renderbufferBindings : b.renderbuffer = r

\* The driver's RENDERBUFFER binding after gl::DeleteRenderbuffers(1, &id):
\* deleting the bound renderbuffer reverts the binding to 0.
DeleteRenderbuffers(bound, id) == IF bound = id THEN 0 ELSE bound

\* Drop for Renderbuffer: a borrowed value cannot be moved or dropped.
Renderbuffer_drop(r) ==
    /\ renderbuffers[r].state = "live"
    /\ ~RenderbufferBorrowed(r)
    /\ renderbuffers' = [renderbuffers EXCEPT ![r].state = "dropped"]
    /\ drvDeleteRenderbuffers' =
            [drvDeleteRenderbuffers EXCEPT ![renderbuffers[r].gl_id] = @ + 1]
    /\ trace' = <<Call("DeleteRenderbuffers", 1, renderbuffers[r].gl_id)>>
    /\ last' = [Result("Renderbuffer::drop", "Unit") EXCEPT
                    !.gl_id = renderbuffers[r].gl_id]
    /\ drvCurrentRenderbuffer' =
            DeleteRenderbuffers(drvCurrentRenderbuffer, renderbuffers[r].gl_id)
    /\ UNCHANGED <<programs, bindings, drvProgramNames, drvRenderbufferNames,
                   drvDeleteProgram, drvCurrentProgram, drvLinkStatus, uniform>>

\* ------------------------------------------------------- binders, bindings
\* `pub struct ProgramBinder;` is a unit struct any caller can write down:
\* the binder values a caller has made.
ProgramBinders == {"binder_a", "binder_b"}

\* ProgramBinder::bind(&mut self, &mut Program) -> ProgramBinding: the elided
\* lifetime of the result is that of `&mut self`, so the binding keeps its
\* binder value k borrowed and releases the Program when the call returns.
ProgramBinderBorrowed(k) == \E b \in programBindings : b.binder = k

ProgramBinder_bind_enabled(k, p) ==
    /\ programs[p].state = "live"
    /\ ~ProgramBinderBorrowed(k)

ProgramBinder_bind(k, p) ==
    /\ ProgramBinder_bind_enabled(k, p)
    /\ programBindings' = programBindings \cup {[program |-> p, binder |-> k]}
    /\ trace' = <<Call("UseProgram", programs[p].gl_id, 0)>>
    /\ last' = [Result("ProgramBinder::bind", "ProgramBinding") EXCEPT
                    !.gl_id = programs[p].gl_id]
    /\ drvCurrentProgram' = programs[p].gl_id
    /\ UNCHANGED <<objects, renderbufferBindings, ctx_renderbuffer, driver,
                   drvCurrentRenderbuffer, drvLinkStatus, uniform>>

\* The end of a ProgramBinding's scope: there is no Drop impl, no driver call.
ProgramBinding_drop(b) ==
    /\ b \in programBindings
    /\ programBindings' = programBindings \ {b}
    /\ trace' = <<>>
    /\ last' = [Result("ProgramBinding::drop", "Unit") EXCEPT
                    !.gl_id = programs[b.program].gl_id]
    /\ UNCHANGED <<objects, renderbufferBindings, ctx_renderbuffer, driver,
                   current, drvLinkStatus, uniform>>

\* RenderbufferBinder::bind<'a>(&mut self, &'a mut Renderbuffer)
\* -> RenderbufferBinding<'a>: the binding borrows the Renderbuffer for 'a and
\* the borrow of the binder ends when the call returns.
RenderbufferBinder_bind_result(r, via) ==
    [binding |-> [renderbuffer |-> r, via |-> via],
     calls |-> <<Call("BindRenderbuffer", GL_RENDERBUFFER, renderbuffers[r].gl_id)>>]

\* The context's renderbuffer slot holds a binder.
RenderbufferBinderObtainable == ctx_renderbuffer = "RenderbufferBinder"

\* `pub struct RenderbufferBinder;` is a unit struct any caller can write
\* down, and no RenderbufferBinding keeps one borrowed: bind needs only a
\* Renderbuffer that is alive and not borrowed.
RenderbufferBinder_bind_enabled(r) ==
    /\ renderbuffers[r].state = "live"
    /\ ~RenderbufferBorrowed(r)

\* bind_renderbuffer takes the binder from the context's slot.
bind_renderbuffer_enabled(r) ==
    /\ RenderbufferBinderObtainable
    /\ RenderbufferBinder_bind_enabled(r)

RenderbufferBinder_bind(r) ==
    /\ RenderbufferBinder_bind_enabled(r)
    /\ LET res == RenderbufferBinder_bind_result(r, "RenderbufferBinder::bind") IN
        /\ renderbufferBindings' = renderbufferBindings \cup {res.binding}
        /\ trace' = res.calls
        /\ last' = [Result("RenderbufferBinder::bind", "RenderbufferBinding")
                        EXCEPT !.gl_id = renderbuffers[r].gl_id]
    /\ drvCurrentRenderbuffer' = renderbuffers[r].gl_id
    /\ UNCHANGED <<objects, programBindings, ctx_renderbuffer, driver,
                   drvCurrentProgram, drvLinkStatus, uniform>>

\* The RB slot types bind_renderbuffer accepts (RB: BorrowMut<RenderbufferBinder>):
\* the binder itself, or an exclusive reference to the caller's binder.
SlotTypes == {"RenderbufferBinder", "&mut RenderbufferBinder"}

\* split_renderbuffer: the slot's value and the residual context, slot ().
split_renderbuffer(slot) == [binder |-> slot, residual |-> "Unit"]

\* What the caller's context holds after bind_renderbuffer consumed `self`:
\* an owned binder was moved in and dropped at the end of the call; a
\* referenced binder stays with its owner, the reference is gone.
bind_renderbuffer_ctx(slot) ==
    IF slot = "RenderbufferBinder" THEN split_renderbuffer(slot).residual
    ELSE ctx_renderbuffer

bind_renderbuffer(slot, r) ==
    /\ bind_renderbuffer_enabled(r)
    /\ LET res == RenderbufferBinder_bind_result(r, "bind_renderbuffer") IN
        /\ renderbufferBindings' = renderbufferBindings \cup {res.binding}
        /\ ctx_renderbuffer' = bind_renderbuffer_ctx(slot)
        /\ trace' = res.calls
        /\ last' = [Result("bind_renderbuffer", "RenderbufferBinding") EXCEPT
                        !.gl_id = renderbuffers[r].gl_id,
                        !.residual = split_renderbuffer(slot).residual]
    /\ drvCurrentRenderbuffer' = renderbuffers[r].gl_id
    /\ UNCHANGED <<objects, programBindings, driver, drvCurrentProgram,
                   drvLinkStatus, uniform>>

\* The end of a RenderbufferBinding's scope: no Drop impl, no driver call,
\* and nothing is written back to any context.
RenderbufferBinding_drop(b) ==
    /\ b \in renderbufferBindings
    /\ renderbufferBindings' = renderbufferBindings \ {b}
    /\ trace' = <<>>
    /\ last' = [Result("RenderbufferBinding::drop", "Unit") EXCEPT
                    !.gl_id = renderbuffers[b.renderbuffer].gl_id]
    /\ UNCHANGED <<objects, programBindings, ctx_renderbuffer, driver,
                   current, drvLinkStatus, uniform>>

\* A usize as its upper and lower 32 bits, the lower ones a U32.
Usize(hi, lo) == [hi |-> hi, lo |-> lo]

\* `n as GLsizei` of a usize n: the low 32 bits, read signed.
AsGLsizei(n) == AsGLint(n.lo)

\* ------------------------------------------------------- program: uniforms
Vectors == {"Vec1", "Vec2", "Vec3", "Vec4"}
Matrices == {"Matrix2x2", "Matrix3x3", "Matrix4x4"}

\* UniformDatumType: VecN carries a UniformPrimitiveType, a matrix none.
UniformDatumTypes ==
    [shape : Vectors, prim : {"Float", "Int"}]
        \cup [shape : Matrices, prim : {"None"}]

\* set_uniform's match with Vec3(Int) sent to the float call.
set_uniform_calls_vec3_float(gl_index, elements, t) ==
    LET idx == AsGLint(gl_index)
        count == AsGLsizei(elements)
    IN  <<CASE t.shape = "Vec1" ->
                (CASE t.prim = "Float" -> Call5("Uniform1fv", idx, count, 0, 0)
                   [] t.prim = "Int" -> Call5("Uniform1iv", idx, count, 0, 0))
            [] t.shape = "Vec2" ->
                (CASE t.prim = "Float" -> Call5("Uniform2fv", idx, count, 0, 0)
                   [] t.prim = "Int" -> Call5("Uniform2iv", idx, count, 0, 0))
            [] t.shape = "Vec3" ->
                (CASE t.prim = "Float" -> Call5("Uniform3fv", idx, count, 0, 0)
                   [] t.prim = "Int" -> Call5("Uniform3fv", idx, count, 0, 0))
            [] t.shape = "Vec4" ->
                (CASE t.prim = "Float" -> Call5("Uniform4fv", idx, count, 0, 0)
                   [] t.prim = "Int" -> Call5("Uniform4iv", idx, count, 0, 0))
            [] t.shape = "Matrix2x2" ->
                Call5("UniformMatrix2fv", idx, count, GL_FALSE, 0)
            [] t.shape = "Matrix3x3" ->
                Call5("UniformMatrix3fv", idx, count, GL_FALSE, 0)
            [] t.shape = "Matrix4x4" ->
                Call5("UniformMatrix4fv", idx, count, GL_FALSE, 0)>>

\* The driver call set_uniform makes: idx = uniform.gl_index as GLint,
\* count = val.uniform_elements() as GLsizei, then the match on the datum
\* type; a call
\* is [fn, a |-> location, b |-> count, c |-> transpose].
set_uniform_calls(gl_index, elements, t) ==
    LET idx == AsGLint(gl_index)
        count == AsGLsizei(elements)
    IN  <<CASE t.shape = "Vec1" ->
                (CASE t.prim = "Float" -> Call5("Uniform1fv", idx, count, 0, 0)
                   [] t.prim = "Int" -> Call5("Uniform1iv", idx, count, 0, 0))
            [] t.shape = "Vec2" ->
                (CASE t.prim = "Float" -> Call5("Uniform2fv", idx, count, 0, 0)
                   [] t.prim = "Int" -> Call5("Uniform2iv", idx, count, 0, 0))
            [] t.shape = "Vec3" ->
                (CASE t.prim = "Float" -> Call5("Uniform3fv", idx, count, 0, 0)
                   [] t.prim = "Int" -> Call5("Uniform3iv", idx, count, 0, 0))
            [] t.shape = "Vec4" ->
                (CASE t.prim = "Float" -> Call5("Uniform4fv", idx, count, 0, 0)
                   [] t.prim = "Int" -> Call5("Uniform4iv", idx, count, 0, 0))
            [] t.shape = "Matrix2x2" ->
                Call5("UniformMatrix2fv", idx, count, GL_FALSE, 0)
            [] t.shape = "Matrix3x3" ->
                Call5("UniformMatrix3fv", idx, count, GL_FALSE, 0)
            [] t.shape = "Matrix4x4" ->
                Call5("UniformMatrix4fv", idx, count, GL_FALSE, 0)>>

\* val.uniform_elements(): usize, 1..MaxElements and the edges of the cast
\* to GLsizei, 2^31 and 2^32.
ElementCounts ==
    {Usize(0, U32(0, n)) : n \in 1..MaxElements}
        \cup {Usize(0, U32(32768, 0)), Usize(1, U32(0, 0))}

\* ProgramBinding::set_uniform(&self, uniform, val): callable on a live
\* ProgramBinding b, with the ProgramUniform held (a Copy value) and a
\* value of any datum type and an element count drawn from `counts`.
set_uniform_with(b, counts) ==
    /\ b \in programBindings
    /\ uniform # NoUniform
    /\ \E t \in UniformDatumTypes : \E elements \in counts :
        /\ trace' = set_uniform_calls(uniform.gl_index, elements, t)
        /\ last' = [Result("set_uniform", "Unit") EXCEPT
                        !.gl_id = programs[b.program].gl_id,
                        !.program = b.program,
                        !.uniform_program = uniform.program,
                        !.index = uniform.index,
                        !.gl_index = uniform.gl_index,
                        !.shape = t.shape, !.prim = t.prim,
                        !.elements = elements]
    /\ UNCHANGED <<objects, bindings, driver, current, drvLinkStatus, uniform>>

set_uniform(b) == set_uniform_with(b, ElementCounts)

\* Values a caller may store in the pub field gl_index: 2^31 and 2^32 - 1.
WrittenIndexes == {U32(32768, 0), U32(65535, 65535)}

\* `u.gl_index = v` on the ProgramUniform held: the field is pub.
ProgramUniform_write(v) ==
    /\ uniform # NoUniform
    /\ uniform.gl_index # v
    /\ uniform' = [uniform EXCEPT !.gl_index = v]
    /\ trace' = <<>>
    /\ last' = [Result("ProgramUniform::gl_index", "Unit") EXCEPT
                    !.program = uniform.program, !.gl_index = v]
    /\ UNCHANGED <<objects, bindings, driver, current, drvLinkStatus>>

\* --------------------------------------------------------------- context
\* Color { r, g, b, a }, each component 0.0 or 1.0.
Colors == {<<0, 0, 0, 1>>, <<1, 1, 1, 1>>}

\* Context::clear_color(&mut self, color): one gl::ClearColor(r, g, b, a).
clear_color ==
    /\ \E color \in Colors :
        trace' = <<[fn |-> "ClearColor", a |-> color[1], b |-> color[2],
                    c |-> color[3], d |-> color[4]]>>
    /\ last' = Result("clear_color", "Unit")
    /\ UNCHANGED <<objects, bindings, driver, current, drvLinkStatus, uniform>>

\* BufferBits::bits(): COLOR_BUFFER_BIT, and its union with DEPTH_BUFFER_BIT.
BufferBits == {16384, 16640}

\* Context::clear(&mut self, buffers): one gl::Clear(buffers.bits()).
clear ==
    /\ \E bits \in BufferBits : trace' = <<Call("Clear", bits, 0)>>
    /\ last' = Result("clear", "Unit")
    /\ UNCHANGED <<objects, bindings, driver, current, drvLinkStatus, uniform>>

\* gl_index of a ProgramAttrib: any value, the struct and its field being pub.
AttribIndexes == {0, 1}

\* Context::enable_vertex_attrib_array(&self, attrib): one
\* gl::EnableVertexAttribArray(attrib.gl_index).
enable_vertex_attrib_array ==
    /\ \E gl_index \in AttribIndexes :
        trace' = <<Call("EnableVertexAttribArray", gl_index, 0)>>
    /\ last' = Result("enable_vertex_attrib_array", "Unit")
    /\ UNCHANGED <<objects, bindings, driver, current, drvLinkStatus, uniform>>

\* `mode as GLenum` for DrawingMode::Points and DrawingMode::Triangles.
DrawingModes == {0, 4}

\* first: u32, 0 and 2^32 - 1; count: usize, 3 and 2^32.
DrawFirsts == {U32(0, 0), U32(65535, 65535)}
DrawCounts == {Usize(0, U32(0, 3)), Usize(1, U32(0, 0))}

\* Context::draw_arrays(&self, mode, first, count) (an unsafe fn): one
\* gl::DrawArrays(mode as GLenum, first as GLint, count as GLsizei).
draw_arrays ==
    /\ \E mode \in DrawingModes, first \in DrawFirsts, count \in DrawCounts :
        trace' = <<Call5("DrawArrays", mode, AsGLint(first),
                         AsGLsizei(count), 0)>>
    /\ last' = Result("draw_arrays", "Unit")
    /\ UNCHANGED <<objects, bindings, driver, current, drvLinkStatus, uniform>>

\* ------------------------------------------------------------------- Next
\* Objects, binders and bindings: every order of creating, binding,
\* drawing and dropping that the borrow checker accepts.
Next ==
    \/ create_program
    \/ \E p \in 1..MaxPrograms : Program_drop(p)
    \/ \E k \in ProgramBinders, p \in 1..MaxPrograms : ProgramBinder_bind(k, p)
    \/ \E b \in programBindings : ProgramBinding_drop(b)
    \/ gen_renderbuffer
    \/ \E r \in 1..MaxRenderbuffers : Renderbuffer_drop(r)
    \/ \E r \in 1..MaxRenderbuffers : RenderbufferBinder_bind(r)
    \/ \E r \in 1..MaxRenderbuffers, slot \in SlotTypes : bind_renderbuffer(slot, r)
    \/ \E b \in renderbufferBindings : RenderbufferBinding_drop(b)
    \/ draw_arrays

Spec == Init /\ [][Next]_vars

\* Program linking and introspection, over every answer of the driver.
NextLink ==
    \/ create_program
    \/ \E p \in 1..MaxPrograms : Program_drop(p)
    \/ \E p \in 1..MaxPrograms : link_program(p)
    \/ \E p \in 1..MaxPrograms : get_program_info_log_call(p)

SpecLink == Init /\ [][NextLink]_vars

\* Attribute and uniform lookup, over every name and driver answer.
NextLoc ==
    \/ create_program
    \/ \E p \in 1..MaxPrograms : link_program_no_log(p)
    \/ \E p \in 1..MaxPrograms : get_attrib_location(p)
    \/ \E p \in 1..MaxPrograms : get_uniform_location(p)

SpecLoc == Init /\ [][NextLoc]_vars

\* Uniform upload of every datum type and element count: resolve a
\* location, bind a program through one binder, upload through the binding.
NextUpload ==
    \/ create_program
    \/ \E p \in 1..MaxPrograms : link_program_no_log(p)
    \/ \E p \in 1..MaxPrograms : get_uniform_location_with(p, {<<97>>}, TRUE)
    \/ \E p \in 1..MaxPrograms : ProgramBinder_bind("binder_a", p)
    \/ \E b \in programBindings : ProgramBinding_drop(b)
    \/ \E b \in programBindings : set_uniform(b)

SpecUpload == Init /\ [][NextUpload]_vars

\* Uniform upload of single values: resolve a location, write its pub field,
\* bind programs through either binder, upload through a binding.
NextUniform ==
    \/ create_program
    \/ \E p \in 1..MaxPrograms : link_program_no_log(p)
    \/ \E p \in 1..MaxPrograms : get_uniform_location_with(p, {<<97>>}, TRUE)
    \/ \E v \in WrittenIndexes : ProgramUniform_write(v)
    \/ \E k \in ProgramBinders, p \in 1..MaxPrograms : ProgramBinder_bind(k, p)
    \/ \E b \in programBindings : set_uniform_with(b, {Usize(0, U32(0, 1))})

SpecUniform == Init /\ [][NextUniform]_vars

\* Uniform upload where Programs and ProgramBindings are also dropped, in
\* any order the borrow checker accepts.
NextUniformDrop ==
    \/ NextUniform
    \/ \E p \in 1..MaxPrograms : Program_drop(p)
    \/ \E b \in programBindings : ProgramBinding_drop(b)

SpecUniformDrop == Init /\ [][NextUniformDrop]_vars

\* The operations that are neither binds nor drops, run on the first
\* FrameObjects programs and renderbuffers while these are bound; a location
\* looked up is used at once and not kept.
NextFrame ==
    \/ create_program
    \/ \E k \in ProgramBinders, p \in 1..FrameObjects : ProgramBinder_bind(k, p)
    \/ gen_renderbuffer
    \/ \E r \in 1..FrameObjects : RenderbufferBinder_bind(r)
    \/ \E p \in 1..FrameObjects : attach_shader(p)
    \/ \E p \in 1..FrameObjects : link_program_no_log(p)
    \/ \E p \in 1..FrameObjects : get_program_info_log_call_with(p, {0, 2})
    \/ \E p \in 1..FrameObjects : get_attrib_location_with(p, {<<97>>})
    \/ \E p \in 1..FrameObjects : get_uniform_location_with(p, {<<97>>}, FALSE)
    \/ clear_color
    \/ clear
    \/ enable_vertex_attrib_array

SpecFrame == Init /\ [][NextFrame]_vars

\* ================================================================ claims
Programs == 1..MaxPrograms
Renderbuffers == 1..MaxRenderbuffers
Created(w) == w.state # "none"
CallsTo(fn) == {i \in 1..Len(trace) : trace[i].fn = fn}

\* C1: each target (program, renderbuffer) has at most one live Binding in
\* every reachable state: a bind to a target whose Binding is still alive is
\* rejected, so no second driver bind call is issued for it.
C1_AtMostOneLiveBinding ==
    /\ Cardinality(programBindings) <= 1
    /\ Cardinality(renderbufferBindings) <= 1

\* C2: for every wrapper that was created, the deletion call for its handle
\* has been issued not at all while the wrapper is alive and exactly once
\* after it was dropped.
C2_DeletedExactlyOnceAtDrop ==
    /\ \A p \in Programs :
        /\ programs[p].state = "live" => drvDeleteProgram[programs[p].gl_id] = 0
        /\ programs[p].state = "dropped" => drvDeleteProgram[programs[p].gl_id] = 1
    /\ \A r \in Renderbuffers :
        /\ renderbuffers[r].state = "live"
            => drvDeleteRenderbuffers[renderbuffers[r].gl_id] = 0
        /\ renderbuffers[r].state = "dropped"
            => drvDeleteRenderbuffers[renderbuffers[r].gl_id] = 1

\* C3: a Binding never outlives the object it binds: while a ProgramBinding
\* or RenderbufferBinding of X is alive, X has not been dropped and no
\* deletion call for X's handle has been issued.
C3_BindingNeverOutlivesObject ==
    /\ \A b \in programBindings :
        /\ programs[b.program].state = "live"
        /\ drvDeleteProgram[programs[b.program].gl_id] = 0
    /\ \A b \in renderbufferBindings :
        renderbuffers[b.renderbuffer].state = "live"

\* C4: bind_renderbuffer returns a residual context whose renderbuffer slot
\* is empty, and while the RenderbufferBinding it returned is alive no binder
\* for the renderbuffer target is obtainable, so no second bind is possible.
C4_NoBinderWhileBindRenderbufferBindingLive ==
    /\ last.op = "bind_renderbuffer" => last.residual = "Unit"
    /\ (\E b \in renderbufferBindings : b.via = "bind_renderbuffer")
        => /\ ~RenderbufferBinderObtainable
           /\ \A r \in Renderbuffers : ~RenderbufferBinder_bind_enabled(r)

\* C5: when a Binding's scope ends the slot of its target is occupied again:
\* right after a Binding was dropped, with no Binding of that target left,
\* every live object can be bound to the target (again).
C5_RebindAfterBindingDropped ==
    /\ (last.op = "ProgramBinding::drop" /\ programBindings = {})
        => \A k \in ProgramBinders, p \in Programs :
            programs[p].state = "live" => ProgramBinder_bind_enabled(k, p)
    /\ (last.op = "RenderbufferBinding::drop" /\ renderbufferBindings = {})
        => \A r \in Renderbuffers :
            renderbuffers[r].state = "live" => bind_renderbuffer_enabled(r)

\* C6: every wrapper a creation operation handed out holds a non-zero handle,
\* and a creation for which the driver yielded 0 returned an error.
C6_NoZeroHandleWrapper ==
    /\ \A p \in Programs : Created(programs[p]) => programs[p].gl_id > 0
    /\ \A r \in Renderbuffers : Created(renderbuffers[r]) => renderbuffers[r].gl_id > 0
    /\ (last.op \in {"create_program", "gen_renderbuffer"} /\ last.gl_id = 0)
        => last.tag = "Err"

\* C7: whenever link_program returns Err(GLError::Message(text)), text is
\* not empty, whatever info-log length and content the driver reported.
C7_LinkErrorMessageNonEmpty ==
    (last.op = "link_program" /\ last.tag = "Err") => Len(last.text) > 0

\* C8: when the driver reports link status false and INFO_LOG_LENGTH = 0, or
\* log bytes that do not decode as UTF-8, link_program returns exactly
\* Err(Message("[Unknown program error]")).
C8_FallbackMessage ==
    (/\ last.op = "link_program"
     /\ last.link_status # GL_TRUE
     /\ \/ last.info_length = 0
        \/ last.info_length > 0 /\ ~ValidUtf8(last.log))
    => /\ last.tag = "Err"
       /\ last.text = <<91, 85, 110, 107, 110, 111, 119, 110, 32, 112, 114,
                        111, 103, 114, 97, 109, 32, 101, 114, 114, 111, 114, 93>>

\* C8 witness: a failed link for which the driver reported INFO_LOG_LENGTH = 0.
C8_Witness ==
    /\ last.op = "link_program"
    /\ last.link_status = 0
    /\ last.info_length = 0
    /\ last.tag = "Err"

\* C9: link_program issues LinkProgram first and the LINK_STATUS query second;
\* it returns Ok exactly when the status is TRUE; an info-log query
\* (INFO_LOG_LENGTH, GetProgramInfoLog) is issued only when it returns Err.
C9_LinkOrderAndStatus ==
    last.op = "link_program" =>
        /\ Len(trace) >= 2
        /\ trace[1] = Call("LinkProgram", last.gl_id, 0)
        /\ trace[2] = Call("GetProgramiv", last.gl_id, GL_LINK_STATUS)
        /\ CallsTo("LinkProgram") = {1}
        /\ (last.tag = "Ok") <=> (last.link_status = GL_TRUE)
        /\ last.tag \in {"Ok", "Err"}
        /\ last.tag = "Ok" =>
            /\ CallsTo("GetProgramInfoLog") = {}
            /\ \A i \in 1..Len(trace) : trace[i].b # GL_INFO_LOG_LENGTH
        /\ last.tag = "Err" =>
            trace[3] = Call("GetProgramiv", last.gl_id, GL_INFO_LOG_LENGTH)

\* C9 witness: a successful link, which issued exactly the two calls.
C9_Witness ==
    /\ last.op = "link_program"
    /\ last.link_status = GL_TRUE
    /\ last.tag = "Ok"
    /\ Len(trace) = 2

\* C10: get_program_info_log returns None whenever the driver reports
\* INFO_LOG_LENGTH <= 0, without calling GetProgramInfoLog; a zero-length log
\* never comes back as Some("").
C10_NoLogForNonPositiveLength ==
    (last.op = "get_program_info_log" /\ last.info_length <= 0)
    => /\ last.tag = "None"
       /\ CallsTo("GetProgramInfoLog") = {}
       /\ trace = <<Call("GetProgramiv", last.gl_id, GL_INFO_LOG_LENGTH)>>

\* C10 witness: get_program_info_log answered for INFO_LOG_LENGTH = 0.
C10_Witness ==
    /\ last.op = "get_program_info_log"
    /\ last.info_length = 0
    /\ last.tag = "None"

\* C16: while a Binding is alive the driver's current-object slot of its
\* target holds the handle of the object the Binding was created from; bind
\* issued UseProgram / BindRenderbuffer(RENDERBUFFER, id) exactly once.
C16_CurrentSlotHoldsBoundObject ==
    /\ \A b \in programBindings :
        drvCurrentProgram = programs[b.program].gl_id
    /\ \A b \in renderbufferBindings :
        drvCurrentRenderbuffer = renderbuffers[b.renderbuffer].gl_id
    /\ last.op = "ProgramBinder::bind"
        => trace = <<Call("UseProgram", last.gl_id, 0)>>
    /\ last.op \in {"RenderbufferBinder::bind", "bind_renderbuffer"}
        => trace = <<Call("BindRenderbuffer", GL_RENDERBUFFER, last.gl_id)>>

\* C17: for INFO_LOG_LENGTH = L > 0, get_program_info_log fetches the log
\* once with buffer size L; when the L - 1 bytes decode it returns Some(text)
\* with text of length L - 1 (the bytes before the terminator), and when they
\* do not decode it returns None.
C17_InfoLogTrimmedAndDecoded ==
    (last.op = "get_program_info_log" /\ last.info_length > 0)
    => /\ trace = <<Call("GetProgramiv", last.gl_id, GL_INFO_LOG_LENGTH),
                    Call("GetProgramInfoLog", last.gl_id, last.info_length)>>
       /\ ValidUtf8(last.log)
            => /\ last.tag = "Some"
               /\ Len(last.text) = last.info_length - 1
               /\ last.text = last.log
       /\ ~ValidUtf8(last.log) => last.tag = "None"

\* C17 witness: a log of more than the terminator came back as Some(text).
C17_Witness ==
    /\ last.op = "get_program_info_log"
    /\ last.info_length > 1
    /\ last.tag = "Some"
    /\ Len(last.text) = last.info_length - 1

LocationOps == {"get_attrib_location", "get_uniform_location"}
HasNul(name) == \E i \in 1..Len(name) : name[i] = 0

\* C11: get_attrib_location and get_uniform_location, given a name with an
\* embedded NUL, return Err(()) without issuing any driver call and leave all
\* driver state unchanged.
C11_NulNameFailsLocally ==
    [][(last'.op \in LocationOps /\ HasNul(last'.name))
        => /\ last'.tag = "Err"
           /\ trace' = <<>>
           /\ UNCHANGED <<driver, current, drvLinkStatus>>]_vars

\* C11 witness: a lookup of a name with an embedded NUL has returned.
C11_Witness ==
    /\ last.op = "get_attrib_location"
    /\ last.name = <<97, 0>>
    /\ last.tag = "Err"

\* C12: for a name without NUL the lookup issues its one driver call and
\* returns Ok(location) with gl_index equal to the driver's index when that
\* is >= 0 (0 included), and Err(()) when it is negative; Err(()) carries
\* nothing, so it is the same value as for a name-encoding failure.
C12_LocationWrapsDriverIndex ==
    /\ (last.op \in LocationOps /\ ~HasNul(last.name))
        => /\ trace = <<Call(IF last.op = "get_attrib_location"
                             THEN "GetAttribLocation" ELSE "GetUniformLocation",
                             last.gl_id, 0)>>
           /\ last.index >= 0
                => /\ last.tag = "Ok"
                   /\ last.gl_index.hi * 65536 + last.gl_index.lo = last.index
           /\ last.index < 0 => last.tag = "Err"
    /\ (last.op \in LocationOps /\ last.tag = "Err")
        => (last.gl_index = U32(0, 0) /\ last.text = <<>>)

\* C12 witness: the driver reported index 0 and the lookup returned Ok.
C12_Witness ==
    /\ last.op = "get_uniform_location"
    /\ last.name = <<97>>
    /\ last.index = 0
    /\ last.tag = "Ok"
    /\ last.gl_index = U32(0, 0)

\* The upload call of each UniformDatumType, as the contract lists them.
UploadTable ==
    {<<"Vec1", "Float", "Uniform1fv">>, <<"Vec1", "Int", "Uniform1iv">>,
     <<"Vec2", "Float", "Uniform2fv">>, <<"Vec2", "Int", "Uniform2iv">>,
     <<"Vec3", "Float", "Uniform3fv">>, <<"Vec3", "Int", "Uniform3iv">>,
     <<"Vec4", "Float", "Uniform4fv">>, <<"Vec4", "Int", "Uniform4iv">>,
     <<"Matrix2x2", "None", "UniformMatrix2fv">>,
     <<"Matrix3x3", "None", "UniformMatrix3fv">>,
     <<"Matrix4x4", "None", "UniformMatrix4fv">>}

\* C13 as stated: set_uniform issues exactly one upload call, chosen only
\* by the value's UniformDatumType (VecN(Float) -> UniformNfv, VecN(Int) ->
\* UniformNiv, MatrixNxN -> UniformMatrixNfv); a matrix call passes
\* transpose = FALSE, and every call passes the value's element count and
\* the given location (the 32 bits of gl_index).
C13_UploadPassesElementCount ==
    last.op = "set_uniform"
        => /\ Len(trace) = 1
           /\ <<last.shape, last.prim, trace[1].fn>> \in UploadTable
           /\ AsGLuint(trace[1].a) = last.gl_index
           /\ last.shape \in Matrices => trace[1].c = GL_FALSE
           /\ last.elements.hi = 0
           /\ trace[1].b >= 0
           /\ AsGLuint(trace[1].b) = last.elements.lo

\* C13 amended: as stated, except for the count: the call passes the low 32
\* bits of the element count read as a signed GLsizei, which is the element
\* count when that is below 2^31.
C13_UploadDispatch ==
    last.op = "set_uniform"
        => /\ Len(trace) = 1
           /\ <<last.shape, last.prim, trace[1].fn>> \in UploadTable
           /\ AsGLuint(trace[1].a) = last.gl_index
           /\ last.shape \in Matrices => trace[1].c = GL_FALSE
           /\ AsGLuint(trace[1].b) = last.elements.lo
           /\ (last.elements.hi = 0 /\ last.elements.lo.hi < 32768)
                => trace[1].b = last.elements.lo.hi * 65536
                                    + last.elements.lo.lo

\* C13 witness: two 4x4 matrices have been uploaded to location 2^31 - 1.
C13_Witness ==
    /\ last.op = "set_uniform"
    /\ last.shape = "Matrix4x4"
    /\ last.elements = Usize(0, U32(0, 2))
    /\ trace = <<Call5("UniformMatrix4fv", 2147483647, 2, GL_FALSE, 0)>>

\* C14: every upload issued through set_uniform happens while a program is
\* current in the driver: the ProgramBinding used is alive, its UseProgram
\* made the program current, and that program has not been deleted.
C14_UploadWhileProgramCurrent ==
    last.op = "set_uniform"
        => /\ \E b \in programBindings : b.program = last.program
           /\ drvCurrentProgram > 0
           /\ drvDeleteProgram[drvCurrentProgram] = 0

\* C15 as stated: set_uniform uploads only through a location resolved from
\* the Program currently bound, and a location is resolved only from a
\* Program that was successfully linked.
C15_LocationUsedOnlyWithItsProgram ==
    /\ last.op = "set_uniform" => last.uniform_program = last.program
    /\ (last.op = "get_uniform_location" /\ last.tag = "Ok")
        => drvLinkStatus[last.gl_id] = "linked"

\* C15 amended: a ProgramUniform comes only from get_uniform_location on a
\* Program whose latest link succeeded (the driver reports a negative index
\* otherwise) and records that Program nowhere: set_uniform uploads through
\* it under the ProgramBinding of whichever Program is bound.
C15_LocationResolvedFromLinkedProgram ==
    /\ (last.op = "get_uniform_location" /\ last.tag = "Ok")
        => /\ drvLinkStatus[last.gl_id] = "linked"
           /\ last.index >= 0
           /\ uniform.program = last.program
    /\ last.op = "set_uniform"
        => /\ uniform # NoUniform
           /\ \E b \in programBindings : b.program = last.program
           /\ Len(trace) = 1
           /\ AsGLuint(trace[1].a) = uniform.gl_index

\* C15 witness: an upload under the binding of one Program through a location
\* resolved from another.
C15_Witness ==
    /\ last.op = "set_uniform"
    /\ last.uniform_program # last.program
    /\ Len(trace) = 1

\* C19 as stated: for every ProgramUniform, set_uniform passes the driver a
\* non-negative signed location equal to gl_index.
C19_LocationRoundTrips ==
    last.op = "set_uniform"
        => /\ trace[1].a >= 0
           /\ trace[1].a \div 65536 = last.gl_index.hi
           /\ trace[1].a % 65536 = last.gl_index.lo

\* C19 amended: for every ProgramUniform with gl_index < 2^31 set_uniform
\* passes the driver the non-negative signed location equal to gl_index;
\* every ProgramUniform returned by get_uniform_location is one, its gl_index
\* being the index the driver reported, which set_uniform then passes back.
C19_SmallLocationRoundTrips ==
    /\ (last.op = "set_uniform" /\ last.gl_index.hi < 32768)
        => /\ trace[1].a >= 0
           /\ trace[1].a = last.gl_index.hi * 65536 + last.gl_index.lo
    /\ (last.op = "get_uniform_location" /\ last.tag = "Ok")
        => /\ uniform.gl_index.hi < 32768
           /\ uniform.gl_index.hi * 65536 + uniform.gl_index.lo = last.index
    /\ (last.op = "set_uniform" /\ last.gl_index = AsGLuint(last.index))
        => trace[1].a = last.index

\* C19 witness: the largest location, 2^31 - 1, has been resolved and passed
\* back to the driver.
C19_Witness ==
    /\ last.op = "set_uniform"
    /\ last.index = 2147483647
    /\ last.gl_index = U32(32767, 65535)
    /\ trace[1].a = 2147483647

FrameOps ==
    {"create_program", "attach_shader", "link_program",
     "get_program_info_log", "get_attrib_location", "get_uniform_location",
     "gen_renderbuffer", "clear_color", "clear",
     "enable_vertex_attrib_array"}

BindingCalls ==
    {"UseProgram", "BindRenderbuffer", "DeleteProgram", "DeleteRenderbuffers"}

\* C18: create_program, attach_shader, link_program, get_program_info_log,
\* get_attrib_location, get_uniform_location, gen_renderbuffer, clear_color,
\* clear and enable_vertex_attrib_array leave the binding state unchanged:
\* a step of one of them issues no UseProgram / BindRenderbuffer and no
\* deletion call, and changes no binder slot, live Binding, current object
\* of the driver or delete count.
C18_FrameOpsKeepBindingState ==
    [][last'.op \in FrameOps
        => /\ \A i \in 1..Len(trace') : trace'[i].fn \notin BindingCalls
           /\ UNCHANGED <<bindings, current, drvDeleteProgram,
                          drvDeleteRenderbuffers>>]_vars

\* C18 witness: gen_renderbuffer has run while a program and a renderbuffer
\* were bound, and both are still bound.
C18_Witness ==
    /\ last.op = "gen_renderbuffer"
    /\ programBindings # {}
    /\ renderbufferBindings # {}
    /\ drvCurrentProgram > 0
    /\ drvCurrentRenderbuffer > 0

====
